---- MODULE Spec2Model ----
(***************************************************************************)
(* A model of walrus' Database (database.py).                              *)
(*                                                                         *)
(* Spec: the transaction stack -- the thread-local stack of pipelines      *)
(* (TransactionLocal), the shared re-entrant lock taken by                 *)
(* get_transaction / commit_transaction / clear_transaction, and the       *)
(* _Atomic context manager built on them.                                  *)
(*                                                                         *)
(* SpecStream: the stream methods (xadd, ...), each a call that validates  *)
(* its arguments, builds a command and hands it to execute_command.        *)
(*                                                                         *)
(* SpecScripts: the script registry (init_scripts, run_script).            *)
(*                                                                         *)
(* SpecListener: one pub-sub listener (listener), from its subscriptions   *)
(* to the handler's StopIteration.                                         *)
(*                                                                         *)
(* SpecMonitor: stream_log, the loop that feeds a callback the lines of    *)
(* the server's monitor stream.                                            *)
(***************************************************************************)
EXTENDS Integers, Sequences, FiniteSets, TLC

\* ------------------------------------------------------------- bounds
\* The threads (execution contexts) that share one Database object.
Threads == {1, 2}
\* Commands a caller may queue on a pipeline or issue on the client.
Cmds == {"a"}
\* Pipeline objects created by self.pipeline() in one run.
MaxPipes == 2
\* Commands queued on one pipeline.
MaxCmds == 1

\* Largest integer a caller passes as maxlen.
MaxInt == 2
\* Messages the server publishes to one listener.
MaxMsgs == 3
\* Lines read from the monitor connection by one stream_log call.
MaxLines == 3

NoThread == 0
NoPipe == [id |-> 0, cmds |-> << >>]
NoCall == [op |-> "none"]

\* Python values: None, int, bool (a subclass of int), float, str.
PyNone == [ty |-> "NoneType", n |-> 0, s |-> ""]
PyInt(i) == [ty |-> "int", n |-> i, s |-> ""]
PyBool(b) == [ty |-> "bool", n |-> IF b THEN 1 ELSE 0, s |-> ""]
PyFloat(whole, text) == [ty |-> "float", n |-> whole, s |-> text]
PyStr(text) == [ty |-> "str", n |-> 0, s |-> text]
\* A list, as the sequence of its elements.
PyList(elems) == [ty |-> "list", n |-> Len(elems), s |-> "", items |-> elems]
\* A dict, as the sequence of its (key, value) pairs in iteration order.
PyDict(pairs) == [ty |-> "dict", n |-> Len(pairs), s |-> "", items |-> pairs]

\* What callers pass as maxlen, as stream key, as record id, as data.
MaxlenValues ==
    {PyNone, PyStr("x"), PyFloat(1, "1.5"), PyBool(TRUE), PyBool(FALSE)}
        \cup {PyInt(i) : i \in -1..MaxInt}
KeyValues == {"s1", "s2"}
IdValues == {"*", "1-0"}
DataValues == {<< >>, << <<"f", "1">> >>, << <<"f", "1">>, <<"g", "2">> >>}
\* What callers pass to xread as key, key_to_id, keys, count and timeout, to
\* _xrange and xtrim as count.
XreadKeyValues == {PyNone, PyStr(""), PyStr("s1")}
XreadKeyToIdValues ==
    {PyNone, PyDict(<< >>), PyDict(<< <<"s1", "5-0">>, <<"s2", "$">> >>)}
XreadKeysValues ==
    {PyNone, PyList(<< >>), PyList(<<"s1", "s2">>), PyList(<<"s1", "s1">>)}
NumValues ==
    {PyNone, PyStr("x"), PyBool(FALSE)} \cup {PyInt(i) : i \in -1..1}
RangeCmds == {"XRANGE", "XREVRANGE"}

VARIABLES
    pipes,      \* pipes[k]: the list TransactionLocal.pipes of the thread whose
                \*           thread-local storage is k
    lock,       \* Database._transaction_lock: [owner, count] (an RLock)
    pc,         \* pc[t]: "idle" | "send" (inside pipe.execute()) |
                \*        "renew" (_Atomic.commit/clear about to call
                \*        get_transaction for begin_new)
    via,        \* via[t]: who called the commit_transaction in progress:
                \*         "exit" (_Atomic.__exit__) | "call" (anyone else)
    renew,      \* renew[t]: begin_new of the _Atomic.commit in progress
    inflight,   \* inflight[t]: the pipeline popped by TransactionLocal.commit,
                \*              inside pipe.execute()
    exc,        \* exc[t]: the exception propagating in thread t ("none" if none)
    scopes,     \* scopes[t]: the open `with db.atomic()` blocks of thread t,
                \*            each with the pipeline its __enter__ pushed
    nextId,     \* identity of the next pipeline object
    immediate,  \* the commands the client sent at once (execute_command)
    fate,       \* fate[p]: what happened to pipeline object p: the thread whose
                \*          get_transaction created it (owner), the commands
                \*          queued on it, the batches its execute() was given to
                \*          send and by whom, the threads that reset it
    xcall,      \* the stream method last called on the client, with its arguments
    xsent,      \* the command that call handed to execute_command (<< >>: none)
    xerr        \* the exception that call raised ("none": it returned)

VARIABLES
    scripts,    \* Database._scripts: script name -> Script object
    sprev,      \* Database._scripts as the last init_scripts call found it
    scall       \* the last init_scripts / run_script call: its arguments, the
                \* exception it raised, the Script object it invoked and how

VARIABLES
    lpc,        \* where listen() is: "none" (not called) | "subscribing" |
                \* "listening" (in `for data_dict in pubsub.listen()`) |
                \* "done" (returned) | "failed" (left by an exception)
    largs,      \* the arguments of listener(): channels, patterns, is_async
    lsubs,      \* the subscribe / psubscribe calls made on the pubsub so far
    larrived,   \* the messages the server has published to the subscriptions
    lcalls,     \* the calls of the handler so far: message and outcome
    lclosed     \* pubsub.close() was called

VARIABLES
    mpc,        \* where stream_log is: "none" | "loop" | "done"
    msent,      \* the commands sent on the connection stream_log took
    mread,      \* the lines conn.read_response() has returned
    mcalls      \* the calls of the callback so far: line and return value

txvars == <<pipes, lock, pc, via, renew, inflight, exc, scopes, nextId,
            immediate, fate>>

xvars == <<xcall, xsent, xerr>>

svars == <<scripts, sprev, scall>>

lvars == <<lpc, largs, lsubs, larrived, lcalls, lclosed>>

mvars == <<mpc, msent, mread, mcalls>>

vars == <<txvars, xvars, svars, lvars, mvars>>

\* What the transaction methods leave alone, what the stream methods do, ...
notx == <<xvars, svars, lvars, mvars>>
nostream == <<txvars, svars, lvars, mvars>>
noscripts == <<txvars, xvars, lvars, mvars>>
nolistener == <<txvars, xvars, svars, mvars>>
nomonitor == <<txvars, xvars, svars, lvars>>

ctl == <<pc, via, renew>>

\* ------------------------------------------------------------ helpers
Front(s) == SubSeq(s, 1, Len(s) - 1)
Last(s) == s[Len(s)]

LocalShared(t) == 1

\* class TransactionLocal(threading.local): every thread that touches
\* db._transaction_local gets attributes of its own (and __init__ run for it).
Local(t) == t

\* self._transaction_local.pipes as thread t sees it.
Stack(t) == pipes[Local(t)]

\* TransactionLocal.pipe: the top of the calling thread's stack, or nothing.
Pipe(t) == IF Len(Stack(t)) > 0 THEN Last(Stack(t)) ELSE NoPipe

Depth(t) == Len(Stack(t))

\* get_transaction calls started or promised (begin_new) and not yet done.
PendingBegins == Cardinality({t \in Threads : pc[t] = "renew" \/ renew[t]})

\* Room for one more pipeline object within MaxPipes.
CanBegin == (nextId - 1) + PendingBegins < MaxPipes

Idle(t) == pc[t] = "idle" /\ exc[t] = "none"

\* ------------------------------------------------------ the scripts
\* os.path.join(os.path.dirname(__file__), 'scripts')
DefaultDir == "scripts"

\* What callers pass as script_dir (None: the default directory).
ScriptDirValues == {PyNone, PyStr(""), PyStr("lua2")}

\* The '*.lua' files of a directory, by base name.
ScriptFiles(dir) == IF dir = DefaultDir THEN {"cas", "incr"}
                    ELSE {"incr", "sum"}

\* glob.glob(os.path.join(script_dir, '*.lua')): the files in some order.
Glob(dir) ==
    {<<a, b>> : <<a, b>> \in
        {pair \in ScriptFiles(dir) \X ScriptFiles(dir) : pair[1] # pair[2]}}

\* What can go wrong with one file: open / read, or register_script.
LoadFailures == {"IOError", "ConnectionError"}

\* self.register_script(fh.read()): the Script object of that file's text.
ScriptObj(dir, name) == [dir |-> dir, name |-> name]

\* self._scripts = {}
NoScripts == [name \in {} |-> ScriptObj(DefaultDir, name)]

\* self._scripts once the first k files of the list are registered.
ScriptsAfter(dir, files, k) ==
    [name \in {files[i] : i \in 1..k} |-> ScriptObj(dir, name)]

\* What callers pass to run_script.
ScriptNames == {"cas", "incr", "sum", "nope"}
ScriptKeysValues == {PyNone, PyList(<<"k1">>)}
ScriptArgsValues == {PyNone, PyList(<<"v1", "v2">>)}

\* What callers pass to listener() as channels and as patterns; what the
\* server publishes; how a call of the handler ends.
ChannelValues == {PyNone, PyList(<<"c1">>), PyList(<<"c1", "c2">>)}
PatternValues == {PyNone, PyList(<< >>), PyList(<<"p*">>)}
Msgs == {"m1", "m2"}
HandlerOutcomes == {"return", "StopIteration", "Error"}

\* The lines of the monitor stream; what the callback returns.
Lines == {"OK", "GET k"}
CallbackReturns ==
    {PyBool(TRUE), PyBool(FALSE), PyNone, PyInt(0), PyStr("more")}

Init ==
    /\ pipes = [t \in Threads |-> << >>]
    /\ lock = [owner |-> NoThread, count |-> 0]
    /\ pc = [t \in Threads |-> "idle"]
    /\ via = [t \in Threads |-> "call"]
    /\ renew = [t \in Threads |-> FALSE]
    /\ inflight = [t \in Threads |-> NoPipe]
    /\ exc = [t \in Threads |-> "none"]
    /\ scopes = [t \in Threads |-> << >>]
    /\ nextId = 1
    /\ immediate = {}
    /\ fate = << >>
    /\ xcall = NoCall
    /\ xsent = << >>
    /\ xerr = "none"
    /\ scripts = ScriptsAfter(DefaultDir, <<"cas", "incr">>, 2)
    /\ sprev = NoScripts
    /\ scall = NoCall
    /\ lpc = "none"
    /\ largs = NoCall
    /\ lsubs = << >>
    /\ larrived = << >>
    /\ lcalls = << >>
    /\ lclosed = FALSE
    /\ mpc = "none"
    /\ msent = << >>
    /\ mread = << >>
    /\ mcalls = << >>

\* ------------------------------------------------------------- the lock
\* `with self._transaction_lock:` can be entered by t: the RLock is free or
\* already t's.  While another thread owns it the caller is blocked at that
\* line and has changed nothing.
CanLock(t) == lock.owner \in {NoThread, t}

\* The RLock once t has entered the `with` block.
Acquired(t) == [owner |-> t, count |-> lock.count + 1]

ReleasedNot == lock

\* The RLock once its owner has left the `with` block.
Released == IF lock.count > 1
            THEN [owner |-> lock.owner, count |-> lock.count - 1]
            ELSE [owner |-> NoThread, count |-> 0]

\* ------------------------------------------------- TransactionLocal
PushedSamePipeline(stack, id) == Append(stack, [id |-> 1, cmds |-> << >>])

\* local.pipes.append(self.pipeline()): self.pipeline() is a new object each time.
Pushed(stack, id) == Append(stack, [id |-> id, cmds |-> << >>])

PoppedBottom(stack) == stack[1]

\* pipe = self.pipes.pop(): the pipeline taken and the list left.
Popped(stack) == Last(stack)

AfterPopKept(stack) == stack

AfterPop(stack) == Front(stack)

\* ------------------------------------------- the Database methods
\* get_transaction, whole: lock, push a new pipeline, unlock.
Begin(t) ==
    /\ CanLock(t)
    /\ pipes' = [pipes EXCEPT ![Local(t)] = Pushed(@, nextId)]
    /\ fate' = Append(fate, [owner |-> t, queued |-> << >>, sent |-> << >>,
                             reset |-> << >>])
    /\ nextId' = nextId + 1
    /\ UNCHANGED <<lock, inflight, immediate, notx>>

NoTransactionIndexError == "IndexError"

\* What commit_transaction / clear_transaction raise on an empty stack.
NoTransactionError == "ValueError"

\* commit_transaction / clear_transaction on an empty stack, whole: lock,
\* `if not local.pipes: raise ValueError(...)`, unlock.
NoTransaction(t) ==
    /\ CanLock(t)
    /\ Stack(t) = << >>
    /\ exc' = [exc EXCEPT ![t] = NoTransactionError]
    /\ UNCHANGED <<pipes, lock, inflight, nextId, immediate, fate, notx>>

\* commit_transaction up to the network: lock, local.commit() pops the top
\* pipeline and enters pipe.execute().  The `with` block is not left yet.
CommitPop(t, v, begin_new) ==
    /\ CanLock(t)
    /\ Stack(t) # << >>
    /\ lock' = Acquired(t)
    /\ inflight' = [inflight EXCEPT ![t] = Popped(Stack(t))]
    /\ pipes' = [pipes EXCEPT ![Local(t)] = AfterPop(@)]
    /\ pc' = [pc EXCEPT ![t] = "send"]
    /\ via' = [via EXCEPT ![t] = v]
    /\ renew' = [renew EXCEPT ![t] = begin_new]
    /\ UNCHANGED <<exc, scopes, nextId, immediate, fate, notx>>

\* The batch pipe.execute() hands to the connection.
Batch(pipe) == pipe.cmds

AfterCommitRenewAlways(begin_new, sent) ==
    IF begin_new THEN "renew" ELSE "idle"

\* _Atomic.commit after commit_transaction: `if begin_new:` is reached only
\* when commit_transaction returned; an exception skips get_transaction.
AfterCommit(begin_new, sent) ==
    IF begin_new /\ sent THEN "renew" ELSE "idle"

\* pipe.execute() returns the replies (sent) or raises a connection error,
\* and commit_transaction leaves its `with` block: the lock is released.
\* Then _Atomic.commit goes on to get_transaction if begin_new and nothing was
\* raised; __exit__ is over.
Execute(t, sent) ==
    /\ pc[t] = "send"
    /\ fate' = [fate EXCEPT ![inflight[t].id].sent =
                    Append(@, [by |-> t, cmds |-> Batch(inflight[t])])]
    /\ inflight' = [inflight EXCEPT ![t] = NoPipe]
    /\ lock' = Released
    /\ pc' = [pc EXCEPT ![t] = AfterCommit(renew[t], sent)]
    /\ renew' = [renew EXCEPT ![t] = FALSE]
    /\ via' = [via EXCEPT ![t] = "call"]
    /\ exc' = [exc EXCEPT ![t] = IF sent THEN "none" ELSE "ConnectionError"]
    /\ scopes' = [scopes EXCEPT ![t] = IF via[t] = "exit" THEN Front(@) ELSE @]
    /\ UNCHANGED <<pipes, nextId, immediate, notx>>

\* clear_transaction on a non-empty stack, whole: lock, local.abort() pops the
\* top pipeline and resets it, unlock.
AbortTop(t) ==
    /\ CanLock(t)
    /\ Stack(t) # << >>
    /\ pipes' = [pipes EXCEPT ![Local(t)] = AfterPop(@)]
    /\ fate' = [fate EXCEPT ![Popped(Stack(t)).id].reset = Append(@, t)]
    /\ UNCHANGED <<lock, inflight, nextId, immediate, notx>>

\* ----------------------------------------------------- direct calls
\* db.get_transaction()
GetTransaction(t) ==
    /\ Idle(t)
    /\ CanBegin
    /\ Begin(t)
    /\ UNCHANGED <<ctl, exc, scopes>>

\* db.commit_transaction()
CommitTransaction(t) ==
    /\ Idle(t)
    /\ \/ CommitPop(t, "call", FALSE)
       \/ /\ NoTransaction(t)
          /\ UNCHANGED <<ctl, scopes>>

\* db.clear_transaction()
ClearTransaction(t) ==
    /\ Idle(t)
    /\ \/ /\ AbortTop(t)
          /\ UNCHANGED <<ctl, exc, scopes>>
       \/ /\ NoTransaction(t)
          /\ UNCHANGED <<ctl, scopes>>

\* --------------------------------------------------------- _Atomic
\* `with db.atomic() as txn:` : __enter__ calls get_transaction.
AtomicEnter(t) ==
    /\ Idle(t)
    /\ CanBegin
    /\ Begin(t)
    /\ scopes' = [scopes EXCEPT ![t] = Append(@, nextId)]
    /\ UNCHANGED <<ctl, exc>>

\* txn.commit(begin_new): commit_transaction, then get_transaction if begin_new.
AtomicCommit(t, begin_new) ==
    /\ Idle(t)
    /\ begin_new => CanBegin
    /\ \/ CommitPop(t, "call", begin_new)
       \/ /\ NoTransaction(t)
          /\ UNCHANGED <<ctl, scopes>>

\* txn.clear(begin_new): clear_transaction, then get_transaction if begin_new.
AtomicClear(t, begin_new) ==
    /\ Idle(t)
    /\ begin_new => CanBegin
    /\ \/ /\ AbortTop(t)
          /\ pc' = [pc EXCEPT ![t] = IF begin_new THEN "renew" ELSE "idle"]
          /\ UNCHANGED <<via, renew, exc, scopes>>
       \/ /\ NoTransaction(t)
          /\ UNCHANGED <<ctl, scopes>>

\* The get_transaction that ends txn.commit(True) / txn.clear(True).
AtomicRenew(t) ==
    /\ pc[t] = "renew"
    /\ Begin(t)
    /\ pc' = [pc EXCEPT ![t] = "idle"]
    /\ UNCHANGED <<via, renew, exc, scopes>>

\* __exit__ with no exception: self.commit(False).
AtomicExitNormal(t) ==
    /\ Idle(t)
    /\ Len(scopes[t]) > 0
    /\ \/ CommitPop(t, "exit", FALSE)
       \/ /\ NoTransaction(t)
          /\ scopes' = [scopes EXCEPT ![t] = Front(@)]
          /\ UNCHANGED ctl

\* __exit__ with the exception exc[t]: self.clear(False); __exit__ returns
\* None, so exc[t] goes on propagating, unless clear_transaction itself raised.
AtomicExitError(t) ==
    /\ pc[t] = "idle"
    /\ exc[t] # "none"
    /\ Len(scopes[t]) > 0
    /\ scopes' = [scopes EXCEPT ![t] = Front(@)]
    /\ \/ /\ AbortTop(t)
          /\ UNCHANGED <<ctl, exc>>
       \/ /\ NoTransaction(t)
          /\ UNCHANGED ctl

\* ------------------------------------------------------ the callers
\* The body of a `with db.atomic()` block raises.
Raise(t) ==
    /\ Idle(t)
    /\ Len(scopes[t]) > 0
    /\ exc' = [exc EXCEPT ![t] = "BodyError"]
    /\ UNCHANGED <<pipes, lock, ctl, inflight, scopes, nextId, immediate, fate,
                   notx>>

\* The caller (or an except clause of a body) handles the exception.
Catch(t) ==
    /\ pc[t] = "idle"
    /\ exc[t] # "none"
    /\ exc' = [exc EXCEPT ![t] = "none"]
    /\ UNCHANGED <<pipes, lock, ctl, inflight, scopes, nextId, immediate, fate,
                   notx>>

\* A command issued on a pipeline handle the thread holds (layer i of its
\* stack): the pipeline queues it.
Queue(t, i, c) ==
    /\ Idle(t)
    /\ i \in DOMAIN Stack(t)
    /\ Len(Stack(t)[i].cmds) < MaxCmds
    /\ pipes' = [pipes EXCEPT ![Local(t)][i].cmds = Append(@, c)]
    /\ fate' = [fate EXCEPT ![Stack(t)[i].id].queued = Append(@, c)]
    /\ UNCHANGED <<lock, ctl, inflight, exc, scopes, nextId, immediate, notx>>

AtomicPipeOwn(t, k) ==
    IF \E i \in DOMAIN Stack(t) : Stack(t)[i].id = scopes[t][k]
    THEN Stack(t)[CHOOSE i \in DOMAIN Stack(t) : Stack(t)[i].id = scopes[t][k]]
    ELSE NoPipe

\* _Atomic.pipe of the wrapper of thread t's k-th open block:
\* self.db._transaction_local.pipe, whatever the wrapper pushed.
AtomicPipe(t, k) == Pipe(t)

\* A command issued through a wrapper, `txn.pipe.<command>(...)`, txn being
\* the wrapper of thread t's k-th open block: the pipeline txn.pipe returns
\* queues it.
AtomicQueue(t, k, c) ==
    /\ Idle(t)
    /\ k \in DOMAIN scopes[t]
    /\ AtomicPipe(t, k) # NoPipe
    /\ Len(AtomicPipe(t, k).cmds) < MaxCmds
    /\ LET i == CHOOSE j \in DOMAIN Stack(t) :
                    Stack(t)[j].id = AtomicPipe(t, k).id
       IN  /\ pipes' = [pipes EXCEPT ![Local(t)][i].cmds = Append(@, c)]
           /\ fate' = [fate EXCEPT ![Stack(t)[i].id].queued = Append(@, c)]
    /\ UNCHANGED <<lock, ctl, inflight, exc, scopes, nextId, immediate, notx>>

\* A command issued on the client: Database.xlen and the like end in
\* self.execute_command(...), which sends at once.
ExecuteCommand(t, c) ==
    /\ Idle(t)
    /\ immediate' = immediate \cup {c}
    /\ UNCHANGED <<pipes, lock, ctl, inflight, exc, scopes, nextId, fate,
                   notx>>

\* ------------------------------------------------- stream commands
\* isinstance(v, int)
IsInstanceInt(v) == v.ty \in {"int", "bool"}

\* str(v) of an int or a bool
Str(v) == IF v.ty = "bool" THEN (IF v.n = 1 THEN "True" ELSE "False")
          ELSE IF v.ty = "int" THEN ToString(v.n)
          ELSE IF v.ty = "NoneType" THEN "None"
          ELSE v.s

RECURSIVE Items(_)
\* for k, v in data.items(): parts.append(k); parts.append(v)
Items(data) ==
    IF data = << >> THEN << >>
    ELSE <<data[1][1], data[1][2]>> \o Items(Tail(data))

XaddMaxlenOkNonNegative(maxlen) == IsInstanceInt(maxlen) /\ maxlen.n >= 0

\* xadd: `not isinstance(maxlen, int) or maxlen < 1` is false
XaddMaxlenOk(maxlen) == IsInstanceInt(maxlen) /\ maxlen.n >= 1

\* xadd: the arguments after the key
XaddParts(data, id, maxlen, approximate) ==
    (IF maxlen # PyNone
     THEN <<"MAXLEN">> \o (IF approximate THEN <<"~">> ELSE << >>)
                       \o <<Str(maxlen)>>
     ELSE << >>)
    \o <<id>> \o Items(data)

\* Database.xadd(key, data, id, maxlen, approximate)
Xadd(key, data, id, maxlen, approximate) ==
    /\ xcall' = [op |-> "xadd", key |-> key, data |-> data, id |-> id,
                 maxlen |-> maxlen, approximate |-> approximate]
    /\ IF maxlen # PyNone /\ ~XaddMaxlenOk(maxlen)
       THEN /\ xerr' = "ValueError"
            /\ xsent' = << >>
       ELSE /\ xerr' = "none"
            /\ xsent' = <<"XADD", key>> \o XaddParts(data, id, maxlen, approximate)
    /\ UNCHANGED nostream

\* _xrange: `not isinstance(count, int) or count < 1` is false
XrangeCountOk(count) == IsInstanceInt(count) /\ count.n >= 1

\* Database._xrange(cmd, key, start, stop, count), behind xrange / xrevrange
Xrange(cmd, key, start, stop, count) ==
    /\ xcall' = [op |-> "xrange", cmd |-> cmd, key |-> key, start |-> start,
                 stop |-> stop, count |-> count]
    /\ IF count # PyNone /\ ~XrangeCountOk(count)
       THEN /\ xerr' = "ValueError"
            /\ xsent' = << >>
       ELSE /\ xerr' = "none"
            /\ xsent' = <<cmd, key, start, stop>>
                           \o (IF count # PyNone
                               THEN <<"COUNT", Str(count)>> ELSE << >>)
    /\ UNCHANGED nostream

\* Database.xtrim(key, count, approximate): no check of count
Xtrim(key, count, approximate) ==
    /\ xcall' = [op |-> "xtrim", key |-> key, count |-> count,
                 approximate |-> approximate]
    /\ xerr' = "none"
    /\ xsent' = <<"XTRIM", key, "MAXLEN">>
                   \o (IF approximate THEN <<"~">> ELSE << >>)
                   \o <<Str(count)>>
    /\ UNCHANGED nostream

\* bool(v), as `if key:` / `elif keys:` take it
Truthy(v) == IF v.ty = "NoneType" THEN FALSE
             ELSE IF v.ty = "str" THEN v.s # ""
             ELSE v.n # 0

\* sum(1 for a in [key, key_to_id, keys] if a is not None)
XreadSupplied(key, key_to_id, keys) ==
    Cardinality({i \in 1..3 : <<key, key_to_id, keys>>[i] # PyNone})

XreadShapesOkAtLeastOne(supplied) == supplied >= 1

\* xread: `sum(...) != 1` is false
XreadShapesOk(supplied) == supplied = 1

RECURSIVE DictFromKeys(_, _)
\* dict((key, '0-0') for key in keys): a key seen again keeps its place
DictFromKeys(ks, pairs) ==
    IF ks = << >> THEN pairs
    ELSE DictFromKeys(Tail(ks),
                      IF \E i \in DOMAIN pairs : pairs[i][1] = Head(ks)
                      THEN pairs
                      ELSE Append(pairs, <<Head(ks), "0-0">>))

\* xread: key_to_id after `if key: ... elif keys: ...`
XreadKeyToId(key, key_to_id, keys) ==
    IF Truthy(key) THEN PyDict(<< <<key.s, "0-0">> >>)
    ELSE IF Truthy(keys) THEN PyDict(DictFromKeys(keys.items, << >>))
    ELSE key_to_id

\* xread: `not isinstance(timeout, int) or timeout < 0` is false
XreadTimeoutOk(timeout) == IsInstanceInt(timeout) /\ timeout.n >= 0

\* xread: `not isinstance(count, int) or count < 1` is false
XreadCountOk(count) == IsInstanceInt(count) /\ count.n >= 1

\* xread: the stream names, then the ids (parts.extend(stream_ids))
XreadStreams(pairs) ==
    [i \in 1..Len(pairs) |-> pairs[i][1]] \o [i \in 1..Len(pairs) |-> pairs[i][2]]

\* xread: everything after 'XREAD'
XreadParts(k2id, count, timeout) ==
    (IF timeout # PyNone THEN <<"BLOCK", Str(timeout)>> ELSE << >>)
    \o (IF count # PyNone THEN <<"COUNT", Str(count)>> ELSE << >>)
    \o <<"STREAMS">> \o XreadStreams(k2id.items)

\* Database.xread(key, key_to_id, keys, count, timeout)
Xread(key, key_to_id, keys, count, timeout) ==
    /\ xcall' = [op |-> "xread", key |-> key, key_to_id |-> key_to_id,
                 keys |-> keys, count |-> count, timeout |-> timeout]
    /\ LET k2id == XreadKeyToId(key, key_to_id, keys)
       IN  IF ~XreadShapesOk(XreadSupplied(key, key_to_id, keys))
           THEN xerr' = "ValueError" /\ xsent' = << >>
           ELSE IF timeout # PyNone /\ ~XreadTimeoutOk(timeout)
           THEN xerr' = "ValueError" /\ xsent' = << >>
           ELSE IF count # PyNone /\ ~XreadCountOk(count)
           THEN xerr' = "ValueError" /\ xsent' = << >>
           ELSE IF k2id = PyNone
           \* key_to_id.items() on None
           THEN xerr' = "AttributeError" /\ xsent' = << >>
           ELSE /\ xerr' = "none"
                /\ xsent' = <<"XREAD">> \o XreadParts(k2id, count, timeout)
    /\ UNCHANGED nostream

\* ------------------------------------------------- init_scripts
\* init_scripts: `if not script_dir:` picks the default directory
ScriptDir(script_dir) == IF Truthy(script_dir) THEN script_dir.s ELSE DefaultDir

\* Database.init_scripts(script_dir), the files coming from glob in the order
\* `files`; fail_at = 0: every file is read and registered; fail_at = k: the
\* k-th file raises `failure` (from open / read or from register_script), with
\* the files before it already in self._scripts.
InitScripts(script_dir, files, fail_at, failure) ==
    /\ files \in Glob(ScriptDir(script_dir))
    /\ fail_at \in 0..Len(files)
    /\ sprev' = scripts
    /\ scripts' = ScriptsAfter(ScriptDir(script_dir), files,
                               IF fail_at = 0 THEN Len(files) ELSE fail_at - 1)
    /\ scall' = [op |-> "init_scripts", script_dir |-> script_dir,
                 err |-> IF fail_at = 0 THEN "none" ELSE failure]
    /\ UNCHANGED noscripts

ScriptCallSwapped(script, keys, args) ==
    [script |-> script, keys |-> args, args |-> keys]

\* self._scripts[script_name](keys, args): the Script object is called
ScriptCall(script, keys, args) ==
    [script |-> script, keys |-> keys, args |-> args]

\* Database.run_script(script_name, keys, args): self._scripts[script_name]
\* raises KeyError for a name that is not in the dict.
RunScript(script_name, keys, args) ==
    /\ scall' = [op |-> "run_script", script_name |-> script_name,
                 keys |-> keys, args |-> args,
                 err |-> IF script_name \in DOMAIN scripts
                         THEN "none" ELSE "KeyError",
                 invoked |-> IF script_name \in DOMAIN scripts
                             THEN <<ScriptCall(scripts[script_name], keys, args)>>
                             ELSE << >>]
    /\ UNCHANGED <<scripts, sprev, noscripts>>

\* ------------------------------------------------------- listener
\* `channels or []`, `patterns or []`
OrEmpty(v) == IF Truthy(v) THEN v.items ELSE << >>

\* The calls listen() makes on the pubsub before it listens: subscribe for
\* each channel, then psubscribe for each pattern.
Subscriptions(args) ==
    [i \in 1..Len(OrEmpty(args.channels)) |->
        <<"subscribe", OrEmpty(args.channels)[i]>>]
    \o [i \in 1..Len(OrEmpty(args.patterns)) |->
        <<"psubscribe", OrEmpty(args.patterns)[i]>>]

\* The decorated function is called: inner() makes a pubsub of its own and
\* listen() starts, on a new thread (is_async) or on the caller's.
ListenerStart(channels, patterns, is_async) ==
    /\ lpc \in {"none", "done", "failed"}
    /\ largs' = [op |-> "listener", channels |-> channels,
                 patterns |-> patterns, is_async |-> is_async]
    /\ lpc' = "subscribing"
    /\ lsubs' = << >>
    /\ larrived' = << >>
    /\ lcalls' = << >>
    /\ lclosed' = FALSE
    /\ UNCHANGED nolistener

\* listen(): the next pubsub.subscribe(channel) / pubsub.psubscribe(pattern)
ListenerSubscribe ==
    /\ lpc = "subscribing"
    /\ Len(lsubs) < Len(Subscriptions(largs))
    /\ lsubs' = Append(lsubs, Subscriptions(largs)[Len(lsubs) + 1])
    /\ UNCHANGED <<lpc, largs, larrived, lcalls, lclosed, nolistener>>

\* listen(): the subscriptions are made, `for data_dict in pubsub.listen()`
\* is entered; with nothing subscribed pubsub.listen() ends at once.
ListenerListen ==
    /\ lpc = "subscribing"
    /\ Len(lsubs) = Len(Subscriptions(largs))
    /\ lpc' = IF lsubs = << >> THEN "done" ELSE "listening"
    /\ UNCHANGED <<largs, lsubs, larrived, lcalls, lclosed, nolistener>>

\* The server publishes a message to something the pubsub subscribed to.
ListenerArrive(msg) ==
    /\ lsubs # << >>
    /\ Len(larrived) < MaxMsgs
    /\ larrived' = Append(larrived, msg)
    /\ UNCHANGED <<lpc, largs, lsubs, lcalls, lclosed, nolistener>>

ListenerAfterNoBreak(outcome) ==
    IF outcome = "Error" THEN "failed" ELSE "listening"

\* Where listen() is after fn(**data_dict): `except StopIteration: ... break`
\* ends the loop, any other exception leaves listen(), a return goes on.
ListenerAfter(outcome) ==
    IF outcome = "StopIteration" THEN "done"
    ELSE IF outcome = "Error" THEN "failed"
    ELSE "listening"

\* listen(): pubsub.listen() yields the next message and fn(**data_dict) is
\* called; on StopIteration pubsub.close() is called.
ListenerDeliver(outcome) ==
    /\ lpc = "listening"
    /\ Len(lcalls) < Len(larrived)
    /\ lcalls' = Append(lcalls, [msg |-> larrived[Len(lcalls) + 1],
                                 outcome |-> outcome])
    /\ lclosed' = (outcome = "StopIteration")
    /\ lpc' = ListenerAfter(outcome)
    /\ UNCHANGED <<largs, lsubs, larrived, nolistener>>

\* ----------------------------------------------------- stream_log
\* Database.stream_log(callback) up to its loop: a connection is taken from
\* the pool and conn.send_command('monitor') is called.
StreamLog ==
    /\ mpc \in {"none", "done"}
    /\ msent' = <<"monitor">>
    /\ mread' = << >>
    /\ mcalls' = << >>
    /\ mpc' = "loop"
    /\ UNCHANGED nomonitor

StreamLogGoesOnNotNone(ret) == ret # PyNone

\* `while callback(...):` goes round again
StreamLogGoesOn(ret) == Truthy(ret)

\* One round of `while callback(conn.read_response()): pass`.
StreamLogStep(line, ret) ==
    /\ mpc = "loop"
    /\ Len(mread) < MaxLines
    /\ mread' = Append(mread, line)
    /\ mcalls' = Append(mcalls, [line |-> line, ret |-> ret])
    /\ mpc' = IF StreamLogGoesOn(ret) THEN "loop" ELSE "done"
    /\ UNCHANGED <<msent, nomonitor>>

\* Everything thread t can do on the transaction stack.
Acts(t) ==
    \/ GetTransaction(t)
    \/ CommitTransaction(t)
    \/ ClearTransaction(t)
    \/ AtomicEnter(t)
    \/ \E b \in BOOLEAN : AtomicCommit(t, b)
    \/ \E b \in BOOLEAN : AtomicClear(t, b)
    \/ AtomicRenew(t)
    \/ AtomicExitNormal(t)
    \/ AtomicExitError(t)
    \/ \E sent \in BOOLEAN : Execute(t, sent)
    \/ Raise(t)
    \/ Catch(t)
    \/ \E i \in 1..MaxPipes, c \in Cmds : Queue(t, i, c)
    \/ \E k \in 1..MaxPipes, c \in Cmds : AtomicQueue(t, k, c)
    \/ \E c \in Cmds : ExecuteCommand(t, c)

Next == \E t \in Threads : Acts(t)

Spec == Init /\ [][Next]_vars

\* The stream methods, called one after another.
NextStream ==
    \/ \E key \in KeyValues, data \in DataValues, id \in IdValues,
          maxlen \in MaxlenValues, approximate \in BOOLEAN :
           Xadd(key, data, id, maxlen, approximate)
    \/ \E cmd \in RangeCmds, key \in KeyValues, count \in NumValues :
           Xrange(cmd, key, IF cmd = "XRANGE" THEN "-" ELSE "+",
                  IF cmd = "XRANGE" THEN "+" ELSE "-", count)
    \/ \E key \in KeyValues, count \in NumValues, approximate \in BOOLEAN :
           Xtrim(key, count, approximate)
    \/ \E key \in XreadKeyValues, key_to_id \in XreadKeyToIdValues,
          keys \in XreadKeysValues, count \in NumValues,
          timeout \in NumValues :
           Xread(key, key_to_id, keys, count, timeout)

\* Spec with every network round trip coming to an end: a pipe.execute()
\* that was entered returns or raises.
SpecLive ==
    Spec /\ \A t \in Threads : WF_vars(\E sent \in BOOLEAN : Execute(t, sent))

SpecStream == Init /\ [][NextStream]_vars

\* Scripts loaded again and run, one call after another.
NextScripts ==
    \/ \E script_dir \in ScriptDirValues, fail_at \in 0..2,
          failure \in LoadFailures :
           \E files \in Glob(ScriptDir(script_dir)) :
               InitScripts(script_dir, files, fail_at, failure)
    \/ \E script_name \in ScriptNames, keys \in ScriptKeysValues,
          args \in ScriptArgsValues :
           RunScript(script_name, keys, args)

SpecScripts == Init /\ [][NextScripts]_vars

\* A listener, the server that publishes to it and the handler it calls.
NextListener ==
    \/ \E channels \in ChannelValues, patterns \in PatternValues,
          is_async \in BOOLEAN :
           ListenerStart(channels, patterns, is_async)
    \/ ListenerSubscribe
    \/ ListenerListen
    \/ \E msg \in Msgs : ListenerArrive(msg)
    \/ \E outcome \in HandlerOutcomes : ListenerDeliver(outcome)

SpecListener == Init /\ [][NextListener]_vars

\* stream_log, the lines of the monitor stream and the callback.
NextMonitor ==
    \/ StreamLog
    \/ \E line \in Lines, ret \in CallbackReturns : StreamLogStep(line, ret)

SpecMonitor == Init /\ [][NextMonitor]_vars

\* ===================================================================
\* Properties
\* ===================================================================
RECURSIVE EndsUpTo(_, _)
\* commit_transaction / clear_transaction calls of thread t that found a
\* transaction active, among those on pipelines 1..n: each one left a batch or a
\* reset in the fate of the pipeline it took.
EndsUpTo(t, n) ==
    IF n = 0 THEN 0
    ELSE EndsUpTo(t, n - 1)
         + Cardinality({k \in DOMAIN fate[n].sent : fate[n].sent[k].by = t})
         + Cardinality({k \in DOMAIN fate[n].reset : fate[n].reset[k] = t})

Ends(t) == EndsUpTo(t, Len(fate))

\* get_transaction calls of thread t.
Begins(t) == Cardinality({p \in DOMAIN fate : fate[p].owner = t})

\* Pipeline p is on this stack.
In(stack, p) == \E i \in DOMAIN stack : stack[i].id = p

OnStack(t, p) == In(Stack(t), p)

CommitOrAbortCall(t) ==
    \/ CommitTransaction(t)
    \/ ClearTransaction(t)
    \/ \E b \in BOOLEAN : AtomicCommit(t, b)
    \/ \E b \in BOOLEAN : AtomicClear(t, b)
    \/ AtomicExitNormal(t)
    \/ AtomicExitError(t)

\* C2: a commit or abort called by a context whose stack is empty raises
\* ValueError, sends nothing, takes no lock with it and leaves every stack as
\* it was.
C2_EmptyStackRaises ==
    [][\A t \in Threads :
          (CommitOrAbortCall(t) /\ Stack(t) = << >>) =>
              /\ exc'[t] = "ValueError"
              /\ pc'[t] = "idle"
              /\ pipes' = pipes
              /\ fate' = fate
              /\ immediate' = immediate
              /\ inflight' = inflight
              /\ lock' = lock]_vars

\* C2 witness: a context with an empty stack holds the ValueError of such a
\* call while the other context has a transaction open.
C2_Witness ==
    \E t, u \in Threads :
        /\ t # u
        /\ exc[t] = "ValueError"
        /\ Depth(t) = 0
        /\ Begins(t) = 0
        /\ Depth(u) = 1

\* C3 (as claimed): while a context is inside the network round trip of
\* commit_transaction, the lock is not held: any other context can enter
\* `with self._transaction_lock:` and begin.
C3_LockFreeDuringSend ==
    \A t, u \in Threads :
        (t # u /\ pc[t] = "send") => CanLock(u)

\* C4: stacks are partitioned per context: what one context does never
\* changes another context's stack; every pipeline on a context's stack was
\* pushed by that context; a commit or abort only takes a pipeline its caller
\* pushed; commands queued by one context are never sent by another's commit.
C4_StacksPartitioned ==
    [][/\ \A a \in Threads : Acts(a) =>
              \A b \in Threads \ {a} : Stack(b)' = Stack(b)
       /\ \A t \in Threads :
              /\ \A i \in DOMAIN Stack(t)' : fate'[Stack(t)'[i].id].owner = t
              /\ inflight'[t] # NoPipe => fate'[inflight'[t].id].owner = t
       /\ \A p \in DOMAIN fate' :
              /\ \A k \in DOMAIN fate'[p].sent :
                     fate'[p].sent[k].by = fate'[p].owner
              /\ \A k \in DOMAIN fate'[p].reset :
                     fate'[p].reset[k] = fate'[p].owner]_vars

\* C4 witness: one context has committed its pipeline, commands and all,
\* while the other context's pipeline, commands queued, is still on its stack.
C4_Witness ==
    \E t, u \in Threads :
        /\ t # u
        /\ Depth(u) = 1
        /\ Len(Pipe(u).cmds) = 1
        /\ \E p \in DOMAIN fate :
               /\ fate[p].owner = t
               /\ Len(fate[p].sent) = 1
               /\ Len(fate[p].sent[1].cmds) = 1

\* C5 (as claimed): __enter__ begins; __exit__ without an exception calls
\* commit; __exit__ with an exception calls abort, not commit, and the
\* exception it was given goes on to the caller -- whatever the body did.
C5_ExitReraisesOriginal ==
    [][\A t \in Threads :
          /\ AtomicEnter(t) => Depth(t)' = Depth(t) + 1
          /\ AtomicExitNormal(t) =>
                 \/ pc'[t] = "send" /\ inflight'[t] = Pipe(t)
                 \/ Depth(t) = 0
          /\ AtomicExitError(t) =>
                 /\ pc'[t] = "idle"
                 /\ inflight' = inflight
                 /\ exc'[t] = exc[t]]_vars

\* The entry of pipeline p on a stack ([id, cmds]), if it is there.
Entries(stack, p) == {stack[i] : i \in {j \in DOMAIN stack : stack[j].id = p}}

\* C6 (as claimed): with a block open inside another block of the same
\* context, the inner block's exit takes off only the layer the inner
\* __enter__ pushed; the outer block's pipeline stays on the stack with its
\* commands.
C6_InnerExitLeavesOuter ==
    [][\A t \in Threads :
          ((AtomicExitNormal(t) \/ AtomicExitError(t)) /\ Len(scopes[t]) >= 2) =>
              LET inner == scopes[t][Len(scopes[t])]
                  outer == scopes[t][Len(scopes[t]) - 1]
              IN  /\ Entries(Stack(t)', outer) = Entries(Stack(t), outer)
                  /\ Stack(t)' # Stack(t) => Popped(Stack(t)).id = inner]_vars

\* C7 (as claimed): when the body of a block raises, the commands still
\* queued on the pipeline the block pushed are discarded unsent: __exit__
\* takes that pipeline off the stack and resets it, so that no later commit
\* can send it.
C7_RaisedBlockDiscarded ==
    [][\A t \in Threads :
          (/\ AtomicExitError(t)
           /\ OnStack(t, Last(scopes[t]))
           /\ fate[Last(scopes[t])].queued # << >>) =>
              LET p == Last(scopes[t])
              IN  /\ ~In(Stack(t)', p)
                  /\ fate'[p].reset = <<t>>
                  /\ fate'[p].sent = << >>]_vars

\* C8 (as claimed): with a transaction active in the calling context, a
\* command issued on the client is queued on the top pipeline and not sent.
C8_ClientCommandQueued ==
    [][\A t \in Threads : \A c \in Cmds :
          (ExecuteCommand(t, c) /\ Depth(t) >= 1) =>
              /\ c \notin immediate'
              /\ Pipe(t)'.cmds = Append(Pipe(t).cmds, c)]_vars

Live(p) == \E t \in Threads : OnStack(t, p)

InFlight(p) == \E t \in Threads : inflight[t].id = p

Uses(p) == Len(fate[p].sent) + Len(fate[p].reset)

\* How many places pipeline p takes on the stacks.
Places(p) ==
    Cardinality({<<k, i>> \in (Threads \X (1..MaxPipes)) :
                    i \in DOMAIN pipes[k] /\ pipes[k][i].id = p})

\* C9: every pipeline a begin pushed is in exactly one of three conditions: on
\* one stack, at one place, untouched; popped by a commit whose execute() is
\* running; or consumed exactly once -- one batch sent or one reset, never
\* both, never twice -- and then on no stack again.
C9_ConsumedOnce ==
    \A p \in DOMAIN fate :
        /\ Uses(p) <= 1
        /\ Places(p) <= 1
        /\ \/ Live(p) /\ ~InFlight(p) /\ Uses(p) = 0
           \/ ~Live(p) /\ InFlight(p) /\ Uses(p) = 0
           \/ ~Live(p) /\ ~InFlight(p) /\ Uses(p) = 1

\* C9 witness: one pipeline was sent by a commit, another was reset by an
\* abort, and both are off the stacks.
C9_Witness ==
    \E p, q \in DOMAIN fate :
        /\ Len(fate[p].sent) = 1 /\ fate[p].reset = << >>
        /\ Len(fate[q].reset) = 1 /\ fate[q].sent = << >>
        /\ ~Live(p) /\ ~Live(q)

\* maxlen is supplied and is not a positive integer.
BadMaxlen(m) == m # PyNone /\ ~(IsInstanceInt(m) /\ m.n >= 1)

\* C10: xadd with a maxlen that is supplied and is not a positive integer
\* (0, -1, False, 1.5, "x") raises ValueError and hands no command to
\* execute_command, whatever the key, the data and the id.  (An integer is
\* what isinstance(maxlen, int) accepts; that includes True, which is 1.)
C10_XaddBadMaxlenRejected ==
    (xcall.op = "xadd" /\ BadMaxlen(xcall.maxlen)) =>
        (xerr = "ValueError" /\ xsent = << >>)

\* C10 witness: xadd was called with maxlen=0 and a record to add, and raised.
C10_Witness ==
    /\ xcall.op = "xadd"
    /\ xcall.maxlen = PyInt(0)
    /\ xcall.data # << >>
    /\ xerr = "ValueError"
    /\ xsent = << >>

\* C11: xread with none of key / key_to_id / keys supplied, or with two or
\* three of them, raises ValueError and hands no command to execute_command,
\* whatever count and timeout are (valid, invalid or absent).
C11_XreadShapeCountRejected ==
    (xcall.op = "xread"
         /\ XreadSupplied(xcall.key, xcall.key_to_id, xcall.keys) # 1) =>
        (xerr = "ValueError" /\ xsent = << >>)

\* C11 witness: xread was called with a key and a key list, a valid count and
\* a valid timeout, and raised; nothing was sent.
C11_Witness ==
    /\ xcall.op = "xread"
    /\ xcall.key = PyStr("s1")
    /\ xcall.keys = PyList(<<"s1", "s2">>)
    /\ xcall.key_to_id = PyNone
    /\ xcall.count = PyInt(1)
    /\ xcall.timeout = PyInt(0)
    /\ xerr = "ValueError"
    /\ xsent = << >>

\* count / maxlen is supplied and is not a positive integer.
BadCount(m) == m # PyNone /\ ~(IsInstanceInt(m) /\ m.n >= 1)

\* timeout is supplied and is not a non-negative integer.
BadTimeout(m) == m # PyNone /\ ~(IsInstanceInt(m) /\ m.n >= 0)

\* The stream names and ids a call of xread asks for, as the claim has them:
\* the key or every key of the list from '0-0', or the pairs of the mapping.
XreadAsked(call) ==
    IF call.key # PyNone THEN {<<call.key.s, "0-0">>}
    ELSE IF call.keys # PyNone
    THEN {<<call.keys.items[i], "0-0">> : i \in DOMAIN call.keys.items}
    ELSE {call.key_to_id.items[i] : i \in DOMAIN call.key_to_id.items}

\* C17 (as claimed): xread called with exactly one of key / key_to_id / keys
\* supplied (not None; empty counts as supplied) and a valid count and
\* timeout returns without an error after sending one command
\* XREAD [BLOCK ms] [COUNT n] STREAMS key... id..., BLOCK before COUNT, as
\* many ids as keys, the i-th id that of the i-th key, every stream asked
\* for named once.
C17_XreadCommandShape ==
    (/\ xcall.op = "xread"
     /\ XreadSupplied(xcall.key, xcall.key_to_id, xcall.keys) = 1
     /\ ~BadCount(xcall.count)
     /\ ~BadTimeout(xcall.timeout)) =>
        LET pre == <<"XREAD">>
                   \o (IF xcall.timeout # PyNone
                       THEN <<"BLOCK", Str(xcall.timeout)>> ELSE << >>)
                   \o (IF xcall.count # PyNone
                       THEN <<"COUNT", Str(xcall.count)>> ELSE << >>)
                   \o <<"STREAMS">>
            n == (Len(xsent) - Len(pre)) \div 2
        IN  /\ xerr = "none"
            /\ Len(xsent) = Len(pre) + 2 * n
            /\ SubSeq(xsent, 1, Len(pre)) = pre
            /\ n = Cardinality(XreadAsked(xcall))
            /\ {<<xsent[Len(pre) + i], xsent[Len(pre) + n + i]>> : i \in 1..n}
                   = XreadAsked(xcall)

\* C18 (as claimed): every stream method that takes a count, a maxlen or a
\* timeout -- xadd, xrange / xrevrange, xread, xtrim -- raises ValueError and
\* sends nothing when that value is supplied and is not a positive integer
\* (for timeout: not a non-negative integer).
C18_NumbersValidatedBeforeSend ==
    (\/ xcall.op = "xadd" /\ BadCount(xcall.maxlen)
     \/ xcall.op = "xrange" /\ BadCount(xcall.count)
     \/ xcall.op = "xtrim" /\ BadCount(xcall.count)
     \/ xcall.op = "xread" /\ (BadCount(xcall.count) \/ BadTimeout(xcall.timeout)))
        => (xerr = "ValueError" /\ xsent = << >>)

\* The whole registry of a directory: every file of it registered.
CompleteRegistries(dir) == {ScriptsAfter(dir, files, Len(files)) : files \in Glob(dir)}

\* C12 (as claimed): after an init_scripts call that failed, the registry the
\* client shows is not a part of the new one: it is the complete registry of
\* the directory, or it is the registry as it was before the call, or it
\* holds nothing at all.
C12_NoPartialRegistry ==
    (scall.op = "init_scripts" /\ scall.err # "none") =>
        \/ scripts \in CompleteRegistries(ScriptDir(scall.script_dir))
        \/ scripts = sprev
        \/ scripts = NoScripts

\* C13: run_script with a name that is in the registry calls the Script object
\* registered under that name, once, with the keys and the args it was given;
\* with a name that is not, it raises KeyError and calls no Script object.
\* Either way the registry is left as it was: nothing is loaded again.
C13_RunScriptLooksUp ==
    [][\A name \in ScriptNames, keys \in ScriptKeysValues,
         args \in ScriptArgsValues :
          RunScript(name, keys, args) =>
              /\ scripts' = scripts
              /\ sprev' = sprev
              /\ name \in DOMAIN scripts =>
                     /\ scall'.err = "none"
                     /\ Len(scall'.invoked) = 1
                     /\ scall'.invoked[1].script = scripts[name]
                     /\ scall'.invoked[1].keys = keys
                     /\ scall'.invoked[1].args = args
              /\ name \notin DOMAIN scripts =>
                     /\ scall'.err = "KeyError"
                     /\ scall'.invoked = << >>]_vars

\* C13 witness: after a load of the other directory, run_script('cas') -- a
\* name the earlier registry had and this one has not -- raised KeyError and
\* called nothing, the registry still being the loaded one.
C13_Witness ==
    /\ scall.op = "run_script"
    /\ scall.script_name = "cas"
    /\ scall.keys = PyList(<<"k1">>)
    /\ scall.err = "KeyError"
    /\ scall.invoked = << >>
    /\ scripts \in CompleteRegistries("lua2")
    /\ sprev \in CompleteRegistries(DefaultDir)

\* C14: the handler is called only once every channel is subscribed and every
\* pattern psubscribed, in that order; it is called once for each message
\* received, in the order received; the call in which it raises StopIteration
\* is its last: the pubsub is closed, listen() is over, and messages that
\* arrive later are not delivered.  The pubsub is closed on nothing else.
C14_ListenerStopsOnStopIteration ==
    /\ lcalls # << >> => lsubs = Subscriptions(largs)
    /\ Len(lcalls) <= Len(larrived)
    /\ \A i \in DOMAIN lcalls :
           /\ lcalls[i].msg = larrived[i]
           /\ i < Len(lcalls) => lcalls[i].outcome = "return"
    /\ (lcalls # << >> /\ Last(lcalls).outcome = "StopIteration") =>
           (lclosed /\ lpc = "done")
    /\ lclosed => (lcalls # << >> /\ Last(lcalls).outcome = "StopIteration")

\* C14 witness: two channels and a pattern subscribed; the handler returned
\* from the first message and raised StopIteration on the second; a third
\* message has arrived since and was not delivered.
C14_Witness ==
    /\ Len(lsubs) = 3
    /\ Len(larrived) = 3
    /\ Len(lcalls) = 2
    /\ lcalls[1].outcome = "return"
    /\ lcalls[2].outcome = "StopIteration"
    /\ lclosed
    /\ lpc = "done"

\* C15: stream_log sends `monitor` once; every line read is passed to the
\* callback, in order, one call per line; every call but the last returned
\* something truthy, and stream_log is over exactly when the last call
\* returned something falsy (False, None, 0): no line is read after that, and
\* the loop does not end before it.
C15_StreamLogStopsOnFalsy ==
    /\ mpc # "none" => msent = <<"monitor">>
    /\ Len(mcalls) = Len(mread)
    /\ \A i \in DOMAIN mcalls :
           /\ mcalls[i].line = mread[i]
           /\ i < Len(mcalls) => Truthy(mcalls[i].ret)
    /\ mpc = "done" <=> (mcalls # << >> /\ ~Truthy(Last(mcalls).ret))

\* C15 witness: three lines were read and passed on; the callback returned
\* a truthy string, then True, then 0, and stream_log is over.
C15_Witness ==
    /\ mpc = "done"
    /\ Len(mread) = 3
    /\ mcalls[1].ret = PyStr("more")
    /\ mcalls[2].ret = PyBool(TRUE)
    /\ mcalls[3].ret = PyInt(0)
    /\ mread[1] # mread[2]

\* C16: with two or more layers on a context's stack, a commit takes the top
\* layer and nothing else: the layers under it stay on the stack with their
\* commands; the batch it sends is the commands queued on the layer it took;
\* no other pipeline gets a batch sent by that step; and a pipeline that is
\* still on a stack has had nothing sent, so an outer layer's commands reach
\* the store only by the commit that pops that layer.
C16_InnerCommitSendsInnerOnly ==
    [][\A t \in Threads :
          /\ (pc[t] # "send" /\ pc'[t] = "send") =>
                 /\ inflight'[t] = Pipe(t)
                 /\ Stack(t)' = Front(Stack(t))
          /\ (pc[t] = "send" /\ pc'[t] # "send") =>
                 /\ fate'[inflight[t].id].sent =
                        <<[by |-> t, cmds |-> fate[inflight[t].id].queued]>>
                 /\ \A p \in DOMAIN fate :
                        p # inflight[t].id => fate'[p].sent = fate[p].sent
          /\ \A i \in DOMAIN Stack(t)' :
                 fate'[Stack(t)'[i].id].sent = << >>]_vars

\* C16 witness: a context whose outer pipeline is still on its stack, a
\* command queued on it and nothing sent, while the inner pipeline it began
\* later has been committed and its command sent.
C16_Witness ==
    \E t \in Threads : \E p, q \in DOMAIN fate :
        /\ p < q
        /\ fate[p].owner = t /\ fate[q].owner = t
        /\ Stack(t) = <<[id |-> p, cmds |-> fate[p].queued]>>
        /\ Len(fate[p].queued) = 1
        /\ fate[p].sent = << >>
        /\ Len(fate[q].sent) = 1
        /\ Len(fate[q].sent[1].cmds) = 1

\* C19: commit_transaction takes the top pipeline off the stack before the
\* send: once inside execute() the depth is one less and the pipeline is on
\* no stack.  When the send fails, the error goes to the caller with the
\* stack as the pop left it -- the pipeline is gone -- and _Atomic.commit
\* with begin_new=True pushes nothing in its place.
C19_FailedSendStaysPopped ==
    [][\A t \in Threads :
          /\ (pc[t] # "send" /\ pc'[t] = "send") =>
                 /\ Depth(t)' = Depth(t) - 1
                 /\ ~In(Stack(t)', inflight'[t].id)
          /\ Execute(t, FALSE) =>
                 /\ exc'[t] = "ConnectionError"
                 /\ pc'[t] = "idle"
                 /\ pipes' = pipes
                 /\ nextId' = nextId
                 /\ \A u \in Threads : ~In(Stack(u)', inflight[t].id)]_vars

\* C19 witness: a context began once, queued a command and committed; the
\* send failed: it holds the connection error and its stack is empty.
C19_Witness ==
    \E t \in Threads :
        /\ exc[t] = "ConnectionError"
        /\ pc[t] = "idle"
        /\ Begins(t) = 1
        /\ Depth(t) = 0
        /\ \E p \in DOMAIN fate :
               /\ fate[p].owner = t
               /\ Len(fate[p].sent) = 1
               /\ Len(fate[p].sent[1].cmds) = 1

\* The lock is free and no context is in the locked section, or one context
\* owns it, once, and is the only one in the locked section.
LockFreeOrOwnedOnce ==
    \/ /\ lock = [owner |-> NoThread, count |-> 0]
       /\ \A t \in Threads : pc[t] # "send"
    \/ /\ lock.owner \in Threads
       /\ lock.count = 1
       /\ \A t \in Threads : pc[t] = "send" <=> t = lock.owner

C21_WrapperPipeIsTop ==
    [][\A t \in Threads :
          /\ \A k \in DOMAIN scopes'[t] :
                 AtomicPipe(t, k)' = IF Stack(t)' = << >> THEN NoPipe
                                     ELSE Stack(t)'[Len(Stack(t)')]
          /\ (AtomicEnter(t) /\ scopes[t] # << >>) =>
                 \A k \in DOMAIN scopes[t] : AtomicPipe(t, k)'.id = nextId
          /\ \A k \in DOMAIN scopes[t] : \A c \in Cmds :
                 (AtomicQueue(t, k, c) /\ Stack(t) # << >>) =>
                     /\ Pipe(t)'.cmds = Append(Pipe(t).cmds, c)
                     /\ Front(Stack(t)') = Front(Stack(t))
          /\ (pc[t] = "idle" /\ (pc'[t] = "renew" \/ renew'[t])) =>
                 Stack(t)' = Front(Stack(t))
          /\ (pc[t] # "idle" /\ ~AtomicRenew(t)) => Stack(t)' = Stack(t)
          /\ AtomicRenew(t) =>
                 /\ Stack(t)' = Append(Stack(t), [id |-> nextId, cmds |-> << >>])
                 /\ nextId \notin DOMAIN fate
                 /\ \A k \in DOMAIN scopes'[t] :
                        AtomicPipe(t, k)' = [id |-> nextId, cmds |-> << >>]]_vars

\* C21 witness: a block is open whose pipeline was committed, command and
\* all, by txn.commit(); the stack is one deep again and the wrapper's pipe
\* is another pipeline, with no command.
C21_Witness ==
    \E t \in Threads :
        /\ pc[t] = "idle"
        /\ Len(scopes[t]) = 1
        /\ Len(fate[scopes[t][1]].sent) = 1
        /\ Len(fate[scopes[t][1]].sent[1].cmds) = 1
        /\ Depth(t) = 1
        /\ AtomicPipe(t, 1).id > scopes[t][1]
        /\ AtomicPipe(t, 1).cmds = << >>

====
